---- MODULE Spec2Model ----
(***************************************************************************)
(* Model of part6/app.py: the sonnet search CLI.                           *)
(*                                                                         *)
(* Strings are sequences of one-character strings.  A span is the pair     *)
(* <<start, end>> of 0-based offsets.  Python lists that the code mutates  *)
(* in place (the "spans" list of a line match) live in a heap of cells     *)
(* addressed by naturals, so that two dicts holding the same list object   *)
(* hold the same address.  Lists the code only ever rebuilds (title_spans, *)
(* line_matches) and the dicts themselves are values.                      *)
(***************************************************************************)
EXTENDS Naturals, Integers, Sequences, FiniteSets, TLC

VARIABLES pc, config, sonnets, words, wi, results,
          combined_results, i, heap, out, call, ret

vars == <<pc, config, sonnets, words, wi, results,
          combined_results, i, heap, out, call, ret>>

-----------------------------------------------------------------------------
(* Bounds of the model *)

MaxDocs == 2

MaxWords == 3

MaxLen == 3

MaxSpans == 3

MaxPos == 4

-----------------------------------------------------------------------------
(* Inputs *)

Chars == {"a", "b"}

T_Ab == <<"A", "b">>

T_a == <<"a">>

T_aB == <<"a", "B">>

T_b == <<"b">>

T_ba == <<"b", "a">>

\* Documents the corpus is drawn from: title and lines.
Docs == { [title |-> T_Ab, lines |-> <<T_a, T_b, T_aB>>],
          [title |-> T_b, lines |-> <<T_ba>>] }

\* One more document for the calls of combine_results on its own.
CombineDocs == Docs \cup { [title |-> T_ba, lines |-> <<T_aB, T_a, T_Ab>>] }

\* Words a query is made of (raw.split() yields non-empty words).
Words == { T_a, T_Ab }

SeqsUpTo(S, n) == UNION { [1..k -> S] : k \in 0..n }

Corpora == SeqsUpTo(Docs, MaxDocs)

Queries == SeqsUpTo(Words, MaxWords) \ { <<>> }

-----------------------------------------------------------------------------
(* Python built-ins used by the code *)

Min(a, b) == IF a <= b THEN a ELSE b

Max(a, b) == IF a >= b THEN a ELSE b

\* str.lower() on one character.
LowerChar(c) == CASE c = "A" -> "a" [] c = "B" -> "b" [] OTHER -> c

\* str.lower()
Lower(s) == [k \in 1..Len(s) |-> LowerChar(s[k])]

\* s[lo:hi] for 0 <= lo, with Python's clamping of the upper end.
Slice(s, lo, hi) == SubSeq(s, lo + 1, Min(hi, Len(s)))

\* range(n)
Range(n) == IF n <= 0 THEN <<>> ELSE [k \in 1..n |-> k - 1]

\* Order of Python tuples (start, end).
SpanLE(x, y) == x[1] < y[1] \/ (x[1] = y[1] /\ x[2] <= y[2])

RECURSIVE InsertSpan(_, _)
\* Insert x into the sorted sequence s, after the elements not greater (stable).
InsertSpan(x, s) ==
    IF s = <<>> THEN <<x>>
    ELSE IF SpanLE(s[1], x) THEN <<s[1]>> \o InsertSpan(x, Tail(s))
    ELSE <<x>> \o s

RECURSIVE SortedSpans(_)
\* sorted(s) for a list of (start, end) tuples.
SortedSpans(s) ==
    IF s = <<>> THEN <<>>
    ELSE InsertSpan(s[Len(s)], SortedSpans(SubSeq(s, 1, Len(s) - 1)))

RECURSIVE InsertLine(_, _)
InsertLine(x, s) ==
    IF s = <<>> THEN <<x>>
    ELSE IF s[1].line_no <= x.line_no THEN <<s[1]>> \o InsertLine(x, Tail(s))
    ELSE <<x>> \o s

RECURSIVE SortedLines(_)
\* sorted(s, key=lambda lm: lm["line_no"]); stable, as Python's.
SortedLines(s) ==
    IF s = <<>> THEN <<>>
    ELSE InsertLine(s[Len(s)], SortedLines(SubSeq(s, 1, Len(s) - 1)))

RECURSIVE SumSeq(_)
SumSeq(s) == IF s = <<>> THEN 0 ELSE s[1] + SumSeq(Tail(s))

-----------------------------------------------------------------------------
(* find_spans *)

\* find_spans with range(len(text) - len(pattern)): the last offset is missed.
FindSpansShort(text, pattern) ==
    IF pattern = <<>> THEN <<>>
    ELSE LET starts == SelectSeq(Range(Len(text) - Len(pattern)),
                 LAMBDA k : Slice(text, k, k + Len(pattern)) = pattern)
         IN  [k \in 1..Len(starts) |-> <<starts[k], starts[k] + Len(pattern)>>]

FindSpans(text, pattern) ==
    IF pattern = <<>> THEN <<>>
    ELSE LET starts == SelectSeq(Range(Len(text) - Len(pattern) + 1),
                 LAMBDA k : Slice(text, k, k + Len(pattern)) = pattern)
         IN  [k \in 1..Len(starts) |-> <<starts[k], starts[k] + Len(pattern)>>]

-----------------------------------------------------------------------------
(* ansi_highlight *)

RECURSIVE Sweep(_, _, _, _)
\* The loop of lines 56-61, then the flush of line 62.
Sweep(rest, cs, ce, merged) ==
    IF rest = <<>> THEN Append(merged, <<cs, ce>>)
    ELSE LET s == rest[1][1]
             e == rest[1][2]
         IN  IF s <= ce
             THEN Sweep(Tail(rest), cs, Max(ce, e), merged)
             ELSE Sweep(Tail(rest), s, e, Append(merged, <<cs, ce>>))

RECURSIVE SweepStrict(_, _, _, _)
\* The merge loop with s < current_end: touching spans are not merged.
SweepStrict(rest, cs, ce, merged) ==
    IF rest = <<>> THEN Append(merged, <<cs, ce>>)
    ELSE LET s == rest[1][1]
             e == rest[1][2]
         IN  IF s < ce
             THEN SweepStrict(Tail(rest), cs, Max(ce, e), merged)
             ELSE SweepStrict(Tail(rest), s, e, Append(merged, <<cs, ce>>))

\* The merge step with the strict loop.
MergeSpansStrict(spans) ==
    LET sorted == SortedSpans(spans)
    IN  SweepStrict(Tail(sorted), sorted[1][1], sorted[1][2], <<>>)

\* The merge step, for a non-empty list of spans.
MergeSpans(spans) ==
    LET sorted == SortedSpans(spans)
    IN  Sweep(Tail(sorted), sorted[1][1], sorted[1][2], <<>>)

HlOn == "[["

HlOff == "]]"

RECURSIVE Build(_, _, _, _)
\* The loop of lines 67-72, then line 73.
Build(text, merged, pos, acc) ==
    IF merged = <<>> THEN acc \o Slice(text, pos, Len(text))
    ELSE LET s == merged[1][1]
             e == merged[1][2]
         IN  Build(text, Tail(merged), e,
                   acc \o Slice(text, pos, s) \o <<HlOn>>
                       \o Slice(text, s, e) \o <<HlOff>>)

AnsiHighlight(text, spans) ==
    IF spans = <<>> THEN text
    ELSE Build(text, MergeSpans(spans), 0, <<>>)

-----------------------------------------------------------------------------
(* The heap of "spans" lists *)

EmptyHeap == << >>

\* The address a new list gets: the lowest one not in use.
Alloc(h) ==
    CHOOSE n \in 0..Cardinality(DOMAIN h) :
        n \notin DOMAIN h /\ \A m \in 0..(n - 1) : m \in DOMAIN h

RECURSIVE AddrList(_, _, _, _)
\* The addresses the results rs hold, each once, in the order met from
\* line match j of result k on.
AddrList(rs, k, j, acc) ==
    IF k > Len(rs) THEN acc
    ELSE IF j > Len(rs[k].line_matches) THEN AddrList(rs, k + 1, 1, acc)
    ELSE LET a == rs[k].line_matches[j].spans
         IN  AddrList(rs, k, j + 1,
                 IF \E n \in 1..Len(acc) : acc[n] = a THEN acc ELSE Append(acc, a))

Renamed(rs, at) ==
    [k \in 1..Len(rs) |->
        [rs[k] EXCEPT !.line_matches =
            [j \in 1..Len(rs[k].line_matches) |->
                [rs[k].line_matches[j] EXCEPT !.spans = at[@]]]]]

\* Lists that neither combined_results nor results refers to any more are
\* freed, and the live ones are named 0, 1, ... in the order they are met
\* (an address is nothing the program can see): [cr, results, heap].
Compact(cr, rs, h) ==
    LET live == AddrList(cr \o rs, 1, 1, <<>>)
        at == [a \in { live[n] : n \in 1..Len(live) } |->
                  (CHOOSE n \in 1..Len(live) : live[n] = a) - 1]
    IN  [ cr |-> Renamed(cr, at),
          results |-> Renamed(rs, at),
          heap |-> [n \in 0..(Len(live) - 1) |-> h[live[n + 1]]] ]

\* A result with every "spans" list read from the heap.
Deref(r, h) ==
    [ title |-> r.title,
      title_spans |-> r.title_spans,
      line_matches |-> [k \in 1..Len(r.line_matches) |->
          [ line_no |-> r.line_matches[k].line_no,
            text |-> r.line_matches[k].text,
            spans |-> h[r.line_matches[k].spans] ]],
      matches |-> r.matches ]

DerefAll(rs, h) == [k \in 1..Len(rs) |-> Deref(rs[k], h)]

\* len(title_spans) + sum(len(lm.spans) for lm in line_matches), on a
\* dereferenced result.
SpanCount(v) ==
    Len(v.title_spans)
    + SumSeq([k \in 1..Len(v.line_matches) |-> Len(v.line_matches[k].spans)])

-----------------------------------------------------------------------------
(* search_sonnet *)

RECURSIVE SearchLines(_, _, _, _, _)
\* The loop of lines 85-90 from line number idx on: [lms, heap].
SearchLines(lines_raw, q, idx, lms, h) ==
    IF idx > Len(lines_raw) THEN [lms |-> lms, heap |-> h]
    ELSE LET spans == FindSpans(Lower(lines_raw[idx]), q)
         IN  IF spans # <<>>
             THEN LET a == Alloc(h)
                  IN  SearchLines(lines_raw, q, idx + 1,
                          Append(lms, [line_no |-> idx,
                                       text |-> lines_raw[idx],
                                       spans |-> a]),
                          h @@ (a :> spans))
             ELSE SearchLines(lines_raw, q, idx + 1, lms, h)

\* [res, heap]: the result and the heap with its new lists.
SearchSonnet(sonnet, query, h) ==
    LET q == Lower(query)
        title_spans == FindSpans(Lower(sonnet.title), q)
        ls == SearchLines(sonnet.lines, q, 1, <<>>, h)
        total == Len(title_spans)
                 + SumSeq([k \in 1..Len(ls.lms) |-> Len(ls.heap[ls.lms[k].spans])])
    IN  [ res |-> [ title |-> sonnet.title,
                    title_spans |-> title_spans,
                    line_matches |-> ls.lms,
                    matches |-> total ],
          heap |-> ls.heap ]

RECURSIVE SearchAll(_, _, _, _, _)
\* [search_sonnet(s, word) for s in sonnets], line 341: [results, heap].
SearchAll(ss, word, k, rs, h) ==
    IF k > Len(ss) THEN [results |-> rs, heap |-> h]
    ELSE LET r == SearchSonnet(ss[k], word, h)
         IN  SearchAll(ss, word, k + 1, Append(rs, r.res), r.heap)

-----------------------------------------------------------------------------
(* combine_results *)

\* Position of key ln in the dict d (a sequence in insertion order), or 0.
DictPos(d, ln) ==
    IF \E k \in 1..Len(d) : d[k].line_no = ln
    THEN CHOOSE k \in 1..Len(d) : d[k].line_no = ln
    ELSE 0

\* d[lm["line_no"]] = dict(lm): the copy holds the same "spans" list.
DictPut(d, lm) ==
    LET p == DictPos(d, lm.line_no)
    IN  IF p = 0 THEN Append(d, lm) ELSE [d EXCEPT ![p] = lm]

RECURSIVE DictFrom(_, _)
\* Line 111.
DictFrom(lms, d) ==
    IF lms = <<>> THEN d ELSE DictFrom(Tail(lms), DictPut(d, lms[1]))

RECURSIVE MergeLinesSwapped(_, _, _)
\* The merge loop extending result2's list with result1's.
MergeLinesSwapped(lms2, d, h) ==
    IF lms2 = <<>> THEN [d |-> d, heap |-> h]
    ELSE LET lm == lms2[1]
             p == DictPos(d, lm.line_no)
         IN  IF p # 0
             THEN MergeLinesSwapped(Tail(lms2), d,
                      [h EXCEPT ![lm.spans] = h[lm.spans] \o h[d[p].spans]])
             ELSE MergeLinesSwapped(Tail(lms2), Append(d, lm), h)

RECURSIVE MergeLines(_, _, _)
\* The loop of lines 112-118: [d, heap].
MergeLines(lms2, d, h) ==
    IF lms2 = <<>> THEN [d |-> d, heap |-> h]
    ELSE LET lm == lms2[1]
             p == DictPos(d, lm.line_no)
         IN  IF p # 0
             THEN MergeLines(Tail(lms2), d,
                      [h EXCEPT ![d[p].spans] = h[d[p].spans] \o h[lm.spans]])
             ELSE MergeLines(Tail(lms2), Append(d, lm), h)

\* combine_results with matches taken from result1 alone.
CombineResultsDropCount(result1, result2, h) ==
    LET m == MergeLines(result2.line_matches,
                        DictFrom(result1.line_matches, <<>>), h)
    IN  [ res |-> [ title |-> result1.title,
                    title_spans |-> SortedSpans(result1.title_spans
                                                \o result2.title_spans),
                    line_matches |-> SortedLines(m.d),
                    matches |-> result1.matches ],
          heap |-> m.heap ]

\* combine_results without the sort of lines 120-122.
CombineResultsUnsorted(result1, result2, h) ==
    LET m == MergeLines(result2.line_matches,
                        DictFrom(result1.line_matches, <<>>), h)
    IN  [ res |-> [ title |-> result1.title,
                    title_spans |-> SortedSpans(result1.title_spans
                                                \o result2.title_spans),
                    line_matches |-> m.d,
                    matches |-> result1.matches + result2.matches ],
          heap |-> m.heap ]

\* [res, heap]: the combined dict and the heap after the in-place extends.
CombineResults(result1, result2, h) ==
    LET m == MergeLines(result2.line_matches,
                        DictFrom(result1.line_matches, <<>>), h)
    IN  [ res |-> [ title |-> result1.title,
                    title_spans |-> SortedSpans(result1.title_spans
                                                \o result2.title_spans),
                    line_matches |-> SortedLines(m.d),
                    matches |-> result1.matches + result2.matches ],
          heap |-> m.heap ]

-----------------------------------------------------------------------------
(* print_results *)

NoOutput == [kind |-> "none"]

Message == [kind |-> "message"]

\* [r for r in results if r["matches"] > 0]
Matched(rs) == SelectSeq(rs, LAMBDA r : r.matches > 0)

\* What lines 141-154 print for one matched result.
Shown(r, highlight, h) ==
    [ title |-> IF highlight THEN AnsiHighlight(r.title, r.title_spans)
                ELSE r.title,
      lines |-> [k \in 1..Len(r.line_matches) |->
          LET lm == r.line_matches[k]
          IN  [ line_no |-> lm.line_no,
                text |-> IF highlight THEN AnsiHighlight(lm.text, h[lm.spans])
                         ELSE lm.text ]] ]

PrintResults(query, rs, highlight, h) ==
    LET matched == Matched(rs)
    IN  [ kind |-> "results",
          query |-> query,
          matched |-> Len(matched),
          total |-> Len(rs),
          shown |-> [k \in 1..Len(matched) |-> Shown(matched[k], highlight, h)] ]

-----------------------------------------------------------------------------
(* load_config *)

DEFAULT_CONFIG == [highlight |-> TRUE, search_mode |-> "AND"]

EmptyDict == [x \in {} |-> TRUE]

\* config.json: absent, not JSON ("garbage"), or a JSON object.
Absent == [kind |-> "absent", data |-> EmptyDict]

Garbage == [kind |-> "garbage", data |-> EmptyDict]

Json(d) == [kind |-> "json", data |-> d]

\* The config files the program may start with.
Files == { Absent, Garbage,
           Json([search_mode |-> "XOR"]),
           Json([highlight |-> FALSE, search_mode |-> "OR"]) }

LoadConfig(file) ==
    IF file.kind = "absent" THEN DEFAULT_CONFIG
    ELSE LET tmp == IF file.kind = "garbage" THEN EmptyDict ELSE file.data
         IN  [x \in DOMAIN DEFAULT_CONFIG |->
                 IF x \in DOMAIN tmp THEN tmp[x] ELSE DEFAULT_CONFIG[x]]

-----------------------------------------------------------------------------
(* main: query evaluation *)

\* main without line 335.
InitialCombinedResultsKept(cr) == cr

\* Line 335: combined_results = [], whatever it held.
InitialCombinedResults(cr) == <<>>

\* The fold with OR treated as AND.
FoldOneOrAsAnd(combined_result, result, mode, h) ==
    IF mode = "AND" \/ mode = "OR"
    THEN IF combined_result.matches > 0 /\ result.matches > 0
         THEN CombineResults(combined_result, result, h)
         ELSE [res |-> [combined_result EXCEPT !.matches = 0], heap |-> h]
    ELSE [res |-> combined_result, heap |-> h]

\* The fold with `or` for `and` at line 354.
FoldOneOrZero(combined_result, result, mode, h) ==
    IF mode = "AND"
    THEN IF combined_result.matches > 0 \/ result.matches > 0
         THEN CombineResults(combined_result, result, h)
         ELSE [res |-> [combined_result EXCEPT !.matches = 0], heap |-> h]
    ELSE IF mode = "OR"
    THEN CombineResults(combined_result, result, h)
    ELSE [res |-> combined_result, heap |-> h]

\* Lines 350-361 for one sonnet: [res, heap], res the new combined_results[i].
FoldOne(combined_result, result, mode, h) ==
    IF mode = "AND"
    THEN IF combined_result.matches > 0 /\ result.matches > 0
         THEN CombineResults(combined_result, result, h)
         ELSE [res |-> [combined_result EXCEPT !.matches = 0], heap |-> h]
    ELSE IF mode = "OR"
    THEN CombineResults(combined_result, result, h)
    ELSE [res |-> combined_result, heap |-> h]

RECURSIVE FoldAll(_, _, _, _, _)
\* The loop of lines 348-361 from sonnet k on: [cr, heap].
FoldAll(cr, rs, mode, k, h) ==
    IF k > Len(cr) THEN [cr |-> cr, heap |-> h]
    ELSE LET f == FoldOne(cr[k], rs[k], mode, h)
         IN  FoldAll([cr EXCEPT ![k] = f.res], rs, mode, k + 1, f.heap)

RECURSIVE EvalWords(_, _, _, _, _, _)
\* The loop of lines 339-361 from word k on: [cr, heap].
EvalWords(ss, ws, mode, k, cr, h) ==
    IF k > Len(ws) THEN [cr |-> cr, heap |-> h]
    ELSE LET s == SearchAll(ss, ws[k], 1, <<>>, h)
         IN  IF cr = <<>>
             THEN EvalWords(ss, ws, mode, k + 1, s.results, s.heap)
             ELSE LET f == FoldAll(cr, s.results, mode, 1, s.heap)
                  IN  EvalWords(ss, ws, mode, k + 1, f.cr, f.heap)

\* Lines 335-361 run on their own: the dereferenced combined_results.
EvalQuery(ss, ws, mode) ==
    LET e == EvalWords(ss, ws, mode, 1, <<>>, EmptyHeap)
    IN  DerefAll(e.cr, e.heap)

-----------------------------------------------------------------------------
(* The program *)

NoCall == [op |-> "none"]

\* The first prompt: config.json read by load_config (save_config writes it,
\* and nothing reads it again in the run), the sonnets loaded.
Init ==
    /\ pc = "prompt"
    /\ config \in { LoadConfig(f) : f \in Files }
    /\ sonnets \in Corpora
    /\ words = <<>>
    /\ wi = 1
    /\ results = <<>>
    /\ combined_results = <<>>
    /\ i = 1
    /\ heap = EmptyHeap
    /\ out = NoOutput
    /\ call = NoCall
    /\ ret = NoCall

\* :quit, EOF or an interrupt at the prompt.
Quit ==
    /\ pc = "prompt"
    /\ pc' = "done"
    /\ out' = Message
    /\ UNCHANGED <<config, sonnets, words, wi, results,
                   combined_results, i, heap, call, ret>>

\* :help, a malformed or an unknown command: a message and nothing else.
OtherCommand ==
    /\ pc = "prompt"
    /\ out' = Message
    /\ UNCHANGED <<pc, config, sonnets, words, wi, results,
                   combined_results, i, heap, call, ret>>

\* :highlight on|off
SetHighlight(b) ==
    /\ pc = "prompt"
    /\ config' = [config EXCEPT !.highlight = b]
    /\ out' = Message
    /\ UNCHANGED <<pc, sonnets, words, wi, results,
                   combined_results, i, heap, call, ret>>

\* :search-mode AND|OR.  save_config then writes config.json, which is read
\* at start-up only.
SetSearchMode(m) ==
    /\ pc = "prompt"
    /\ config' = [config EXCEPT !.search_mode = m]
    /\ out' = Message
    /\ UNCHANGED <<pc, sonnets, words, wi, results,
                   combined_results, i, heap, call, ret>>

\* A query line: lines 328-337.
ReadQuery(ws) ==
    /\ pc = "prompt"
    /\ words' = ws
    /\ LET c == Compact(InitialCombinedResults(combined_results), results, heap)
       IN  /\ combined_results' = c.cr
           /\ results' = c.results
           /\ heap' = c.heap
    /\ wi' = 1
    /\ pc' = "search"
    /\ out' = NoOutput
    /\ UNCHANGED <<config, sonnets, i, call, ret>>

\* Lines 339-345: the next word is searched in every sonnet.
SearchWord ==
    /\ pc = "search"
    /\ wi <= Len(words)
    /\ LET s == SearchAll(sonnets, words[wi], 1, <<>>, heap)
           first == combined_results = <<>>
           c == Compact(IF first THEN s.results ELSE combined_results,
                        s.results, s.heap)
       IN  /\ results' = c.results
           /\ combined_results' = c.cr
           /\ heap' = c.heap
           /\ IF first
              THEN wi' = wi + 1 /\ pc' = "search" /\ i' = i
              ELSE wi' = wi /\ pc' = "fold" /\ i' = 1
    /\ UNCHANGED <<config, sonnets, words, out, call, ret>>

\* Lines 348-361 for sonnet i.
FoldDoc ==
    /\ pc = "fold"
    /\ i <= Len(combined_results)
    /\ LET f == FoldOne(combined_results[i], results[i], config.search_mode, heap)
           c == Compact([combined_results EXCEPT ![i] = f.res], results, f.heap)
       IN  /\ combined_results' = c.cr
           /\ results' = c.results
           /\ heap' = c.heap
    /\ i' = i + 1
    /\ UNCHANGED <<pc, config, sonnets, words, wi, out, call, ret>>

\* The inner loop ends: on to the next word.
EndFold ==
    /\ pc = "fold"
    /\ i > Len(combined_results)
    /\ wi' = wi + 1
    /\ pc' = "search"
    /\ UNCHANGED <<config, sonnets, words, results, combined_results,
                   i, heap, out, call, ret>>

\* Line 366, after the last word: the results are printed.
Present ==
    /\ pc = "search"
    /\ wi > Len(words)
    /\ out' = PrintResults(words, combined_results, config.highlight, heap)
    /\ pc' = "prompt"
    /\ UNCHANGED <<config, sonnets, words, wi, results,
                   combined_results, i, heap, call, ret>>

Next ==
    \/ Quit
    \/ OtherCommand
    \/ \E b \in BOOLEAN : SetHighlight(b)
    \/ \E m \in {"AND", "OR"} : SetSearchMode(m)
    \/ \E ws \in Queries : ReadQuery(ws)
    \/ SearchWord
    \/ FoldDoc
    \/ EndFold
    \/ Present

Spec == Init /\ [][Next]_vars

-----------------------------------------------------------------------------
(* The functions on their own: one call, from arguments drawn from bounded  *)
(* sets, and its return.                                                    *)

Texts == SeqsUpTo(Chars, MaxLen)

\* Spans valid in a text of MaxPos characters.
ValidSpans == { <<s, e>> : s \in 0..MaxPos, e \in 0..MaxPos } \cap
              { x \in (0..MaxPos) \X (0..MaxPos) : x[1] < x[2] }

SampleText == [k \in 1..MaxPos |-> IF k % 2 = 1 THEN "A" ELSE "b"]

\* The program's variables, at rest while one function is called.
AtRest ==
    /\ config = DEFAULT_CONFIG
    /\ sonnets = <<>>
    /\ words = <<>>
    /\ wi = 1
    /\ results = <<>>
    /\ combined_results = <<>>
    /\ i = 1
    /\ heap = EmptyHeap
    /\ out = NoOutput

Return(r) ==
    /\ pc = "call"
    /\ pc' = "return"
    /\ ret' = r
    /\ UNCHANGED <<config, sonnets, words, wi, results, combined_results,
                   i, heap, out, call>>

InitFind ==
    /\ AtRest
    /\ pc = "call"
    /\ call \in { [op |-> "find_spans", text |-> t, pattern |-> p] :
                   t \in Texts, p \in Texts }
    /\ ret = NoCall

CallFindSpans ==
    /\ call.op = "find_spans"
    /\ Return([op |-> "find_spans", spans |-> FindSpans(call.text, call.pattern)])

SpecFind == InitFind /\ [][CallFindSpans]_vars

InitMerge ==
    /\ AtRest
    /\ pc = "call"
    /\ call \in { [op |-> "ansi_highlight", text |-> SampleText, spans |-> sp] :
                   sp \in SeqsUpTo(ValidSpans, MaxSpans) \ { <<>> } }
    /\ ret = NoCall

CallAnsiHighlight ==
    /\ call.op = "ansi_highlight"
    /\ Return([op |-> "ansi_highlight",
               merged |-> MergeSpans(call.spans),
               text |-> AnsiHighlight(call.text, call.spans)])

SpecMerge == InitMerge /\ [][CallAnsiHighlight]_vars

\* combine_results(a, b) as main can call it: a an accumulator some query
\* leaves for a sonnet, b the result of one more word on that sonnet.
CombineCalls ==
    { LET e == EvalWords(<<doc>>, ws, mode, 1, <<>>, EmptyHeap)
          s == SearchSonnet(doc, w, e.heap)
      IN  [op |-> "combine_results", a |-> e.cr[1], b |-> s.res, heap |-> s.heap] :
      doc \in CombineDocs, ws \in Queries, mode \in {"AND", "OR"}, w \in Words }

InitCombine ==
    /\ AtRest
    /\ pc = "call"
    /\ call \in CombineCalls
    /\ ret = NoCall

CallCombineResults ==
    /\ call.op = "combine_results"
    /\ LET c == CombineResults(call.a, call.b, call.heap)
       IN  Return([op |-> "combine_results", res |-> c.res, heap |-> c.heap])

SpecCombine == InitCombine /\ [][CallCombineResults]_vars

-----------------------------------------------------------------------------
(* Claims *)

Mode == config.search_mode

\* print_results has just printed the results of the query in words.
Presented == pc = "prompt" /\ out.kind = "results"

\* combined_results is the accumulator of the query in words.
Evaluating == pc \in {"search", "fold"} \/ Presented

CountHolds(r, h) == r.matches = SpanCount(Deref(r, h))

\* The number of places where the lowercased word occurs in a text.
Occurrences(text, word) ==
    Cardinality({ p \in 0..(Len(text) - Len(word)) :
        \A j \in 1..Len(word) : LowerChar(text[p + j]) = LowerChar(word[j]) })

\* The number of spans a word has in a sonnet.
TermCount(sonnet, word) ==
    Occurrences(sonnet.title, word)
    + SumSeq([k \in 1..Len(sonnet.lines) |-> Occurrences(sonnet.lines[k], word)])

TermCounts(sonnet) == [k \in 1..Len(words) |-> TermCount(sonnet, words[k])]

\* C1, as stated: matches == len(title_spans) + sum of len(lm.spans) holds of
\* every result of search_sonnet and of every accumulator entry after each
\* term of a query folded in AND or in OR mode.
C1_MatchesCountsSpans ==
    /\ \A k \in 1..Len(results) : CountHolds(results[k], heap)
    /\ (Evaluating /\ Mode \in {"AND", "OR"}) =>
           \A k \in 1..Len(combined_results) :
               CountHolds(combined_results[k], heap)

\* C1, amended: the equality holds of every result of search_sonnet and of
\* every accumulator entry in OR mode; in AND mode an accumulator entry
\* either satisfies it or has matches == 0 (zeroed, its spans left in place).
C1_MatchesCountsSpansOrZero ==
    /\ \A k \in 1..Len(results) : CountHolds(results[k], heap)
    /\ (Evaluating /\ Mode = "OR") =>
           \A k \in 1..Len(combined_results) :
               CountHolds(combined_results[k], heap)
    /\ (Evaluating /\ Mode = "AND") =>
           \A k \in 1..Len(combined_results) :
               \/ CountHolds(combined_results[k], heap)
               \/ combined_results[k].matches = 0

\* An AND fold that has combined one sonnet's results and zeroed another's,
\* whose spans are still there.
C1_Witness ==
    /\ pc = "fold"
    /\ Mode = "AND"
    /\ \E k \in 1..(i - 1) :
           /\ combined_results[k].matches > results[k].matches
           /\ results[k].matches > 0
           /\ CountHolds(combined_results[k], heap)
    /\ \E k \in 1..(i - 1) :
           /\ combined_results[k].matches = 0
           /\ SpanCount(Deref(combined_results[k], heap)) > 0

\* C2: in AND mode a sonnet's final matches is 0 if some term has no span in
\* it, and the sum of the terms' span counts otherwise.
C2_AndFinalMatches ==
    (Presented /\ Mode = "AND") =>
        \A k \in 1..Len(sonnets) :
            LET counts == TermCounts(sonnets[k])
            IN  combined_results[k].matches =
                    IF \E w \in 1..Len(words) : counts[w] = 0
                    THEN 0 ELSE SumSeq(counts)

\* An AND query of three terms presented: one sonnet has every term, twice
\* the same one, and keeps the sum; another lacks the middle term only.
C2_Witness ==
    /\ Presented
    /\ Mode = "AND"
    /\ Len(words) = 3
    /\ words[1] = words[3]
    /\ \E k \in 1..Len(sonnets) :
           /\ \A w \in 1..3 : TermCount(sonnets[k], words[w]) > 0
           /\ combined_results[k].matches = SumSeq(TermCounts(sonnets[k]))
    /\ \E k \in 1..Len(sonnets) :
           /\ TermCount(sonnets[k], words[1]) > 0
           /\ TermCount(sonnets[k], words[2]) = 0
           /\ combined_results[k].matches = 0

Perms(n) == { f \in [1..n -> 1..n] : \A x, y \in 1..n : f[x] = f[y] => x = y }

\* C3: in OR mode, for a query of two or more terms, a sonnet's final matches
\* is the sum of the matches search_sonnet gives each term, and every
\* ordering of the terms gives the same total.
C3_OrFinalMatches ==
    (Presented /\ Mode = "OR" /\ Len(words) >= 2) =>
        \A k \in 1..Len(sonnets) :
            /\ combined_results[k].matches =
                   SumSeq([w \in 1..Len(words) |->
                       SearchSonnet(sonnets[k], words[w], EmptyHeap).res.matches])
            /\ \A f \in Perms(Len(words)) :
                   EvalQuery(sonnets, [w \in 1..Len(words) |-> words[f[w]]],
                             "OR")[k].matches
                   = combined_results[k].matches

\* An OR query presented with a sonnet that has one term and not the other.
C3_Witness ==
    /\ Presented
    /\ Mode = "OR"
    /\ Len(words) >= 2
    /\ \E k \in 1..Len(sonnets) :
           /\ TermCount(sonnets[k], words[1]) > 0
           /\ TermCount(sonnets[k], words[2]) = 0
           /\ combined_results[k].matches > 0

\* C4: find_spans(T, P) is, in ascending order of start, exactly the spans
\* (p, p + len(P)) of the offsets p where P occurs in T, overlapping ones
\* included; it is empty when P is empty or longer than T.
C4_FindSpans ==
    (pc = "return" /\ ret.op = "find_spans") =>
        LET T == call.text
            P == call.pattern
            sp == ret.spans
        IN  /\ (P = <<>> \/ Len(P) > Len(T)) => sp = <<>>
            /\ P # <<>> =>
                   /\ { sp[k] : k \in 1..Len(sp) } =
                          { <<p, p + Len(P)>> : p \in
                              { q \in 0..(Len(T) - Len(P)) :
                                  \A j \in 1..Len(P) : T[q + j] = P[j] } }
                   /\ \A k \in 1..(Len(sp) - 1) : sp[k][1] < sp[k + 1][1]

\* find_spans("aaa", "aa") has returned [(0,2), (1,3)].
C4_Witness ==
    /\ pc = "return"
    /\ call = [op |-> "find_spans", text |-> <<"a", "a", "a">>,
               pattern |-> <<"a", "a">>]
    /\ ret.spans = << <<0, 2>>, <<1, 3>> >>

\* The offsets a list of spans covers.
Covered(sp) == UNION { sp[k][1]..(sp[k][2] - 1) : k \in 1..Len(sp) }

\* C5: the merge step of ansi_highlight turns a non-empty list of valid
\* spans into spans sorted by start, each ending strictly before the next
\* starts, that cover exactly the offsets the input covers.
C5_MergedSpans ==
    (pc = "return" /\ ret.op = "ansi_highlight") =>
        LET m == ret.merged
        IN  /\ \A k \in 1..Len(m) : m[k][1] < m[k][2]
            /\ \A k \in 1..(Len(m) - 1) : m[k][2] < m[k + 1][1]
            /\ Covered(m) = Covered(call.spans)

\* Unsorted input with one span inside another and one apart.
C5_Witness ==
    /\ pc = "return"
    /\ call.op = "ansi_highlight"
    /\ call.spans = << <<3, 4>>, <<0, 2>>, <<1, 2>> >>
    /\ ret.merged = << <<0, 2>>, <<3, 4>> >>

\* C6: under a search_mode outside {"AND", "OR"} no multi-term query is
\* evaluated to the end and presented.
C6_InvalidModeRefused ==
    ~(Presented /\ Mode \notin {"AND", "OR"} /\ Len(words) >= 2)

\* C7: whatever queries and mode changes came before, the results presented
\* for a query are those of evaluating it on its own, and the corpus never
\* changes.
C7_QueriesIndependent ==
    /\ [](Presented =>
            DerefAll(combined_results, heap) = EvalQuery(sonnets, words, Mode))
    /\ [][sonnets' = sonnets]_vars

\* A one-word query presented after a query of several words (the loop
\* variable i of that earlier fold is still past 1), with a match.
C7_Witness ==
    /\ Presented
    /\ Len(words) = 1
    /\ i > 1
    /\ \E k \in 1..Len(combined_results) : combined_results[k].matches > 0

\* C8: combine_results(a, b) leaves a and b as they were.
C8_ArgumentsUnchanged ==
    (pc = "return" /\ ret.op = "combine_results") =>
        /\ Deref(call.a, ret.heap) = Deref(call.a, call.heap)
        /\ Deref(call.b, ret.heap) = Deref(call.b, call.heap)

LineNos(v) == { v.line_matches[k].line_no : k \in 1..Len(v.line_matches) }

Entry(v, ln) ==
    v.line_matches[CHOOSE k \in 1..Len(v.line_matches) :
                       v.line_matches[k].line_no = ln]

\* C9: the line_matches of combine_results(a, b) are in ascending line_no
\* order, one entry per line number of a or b; a line of both has a's spans
\* then b's, a line of one side has that side's text and spans.
C9_CombinedLines ==
    (pc = "return" /\ ret.op = "combine_results") =>
        LET a == Deref(call.a, call.heap)
            b == Deref(call.b, call.heap)
            c == Deref(ret.res, ret.heap)
        IN  /\ \A k \in 1..(Len(c.line_matches) - 1) :
                   c.line_matches[k].line_no < c.line_matches[k + 1].line_no
            /\ LineNos(c) = LineNos(a) \cup LineNos(b)
            /\ \A ln \in LineNos(c) :
                   IF ln \in LineNos(a) /\ ln \in LineNos(b)
                   THEN Entry(c, ln).spans = Entry(a, ln).spans \o Entry(b, ln).spans
                   ELSE IF ln \in LineNos(a)
                   THEN Entry(c, ln) = Entry(a, ln)
                   ELSE Entry(c, ln) = Entry(b, ln)

\* A call whose b has a line that a lacks, between two lines that both have.
C9_Witness ==
    /\ pc = "return"
    /\ ret.op = "combine_results"
    /\ \E x, y \in LineNos(Deref(call.a, call.heap)) \cap LineNos(Deref(call.b, call.heap)) :
           \E z \in LineNos(Deref(call.b, call.heap)) \ LineNos(Deref(call.a, call.heap)) :
               x < z /\ z < y

\* combine_results on values, every list built anew.
CopyCombine(a, b) ==
    LET lns == LineNos(a) \cup LineNos(b)
        RECURSIVE Asc(_, _)
        Asc(S, acc) ==
            IF S = {} THEN acc
            ELSE LET ln == CHOOSE x \in S : \A y \in S : x <= y
                 IN  Asc(S \ {ln}, Append(acc,
                         IF ln \in LineNos(a) /\ ln \in LineNos(b)
                         THEN [Entry(a, ln) EXCEPT
                                  !.spans = @ \o Entry(b, ln).spans]
                         ELSE IF ln \in LineNos(a) THEN Entry(a, ln)
                         ELSE Entry(b, ln)))
    IN  [ title |-> a.title,
          title_spans |-> SortedSpans(a.title_spans \o b.title_spans),
          line_matches |-> Asc(lns, <<>>),
          matches |-> a.matches + b.matches ]

RECURSIVE CopyFold(_, _, _, _)
\* The fold of main over the words from k on, for one sonnet, with CopyCombine.
CopyFold(sonnet, mode, k, acc) ==
    IF k > Len(words) THEN acc
    ELSE LET s == SearchSonnet(sonnet, words[k], EmptyHeap)
             r == Deref(s.res, s.heap)
         IN  CopyFold(sonnet, mode, k + 1,
                 IF mode = "AND"
                 THEN IF acc.matches > 0 /\ r.matches > 0
                      THEN CopyCombine(acc, r)
                      ELSE [acc EXCEPT !.matches = 0]
                 ELSE CopyCombine(acc, r))

\* C10: in AND and in OR mode the results presented are those of the same
\* fold with a combine that copies every span list.
C10_SharingChangesNothing ==
    (Presented /\ Mode \in {"AND", "OR"}) =>
        \A k \in 1..Len(sonnets) :
            LET s == SearchSonnet(sonnets[k], words[1], EmptyHeap)
            IN  Deref(combined_results[k], heap)
                = CopyFold(sonnets[k], Mode, 2, Deref(s.res, s.heap))

\* A query of three words presented, with a line whose list was extended
\* twice in place.
C10_Witness ==
    /\ Presented
    /\ Mode \in {"AND", "OR"}
    /\ Len(words) = 3
    /\ \E k \in 1..Len(combined_results) :
           /\ combined_results[k].matches > 0
           /\ \E j \in 1..Len(combined_results[k].line_matches) :
                  /\ \A w \in 1..3 :
                         Occurrences(combined_results[k].line_matches[j].text,
                                     words[w]) > 0
                  /\ Len(heap[combined_results[k].line_matches[j].spans]) >= 3

====
